---- MODULE Spec2Model ----
(***************************************************************************)
(* The /extract handler of src/main.py (extract_headers_cookies): a        *)
(* browser session is opened, the on_request / on_response listeners fill  *)
(* the per-call `captured` store while the page loads, and the tail of the *)
(* handler selects the target entries and assembles the JSON answer.       *)
(*                                                                         *)
(* Text the code inspects character by character (URLs, the url and        *)
(* target_request parameters, cookie names and values) is a sequence of    *)
(* one-character strings; text it only copies or compares (methods, header *)
(* names and values, the user agent) is a TLA+ string.  Python's None is   *)
(* the empty tuple and a present optional value v is <<v>>.                *)
(***************************************************************************)
EXTENDS Integers, Sequences, FiniteSets, TLC

VARIABLES
    pc,              \* per call: where the handler is
    query,           \* per call: the parameters as received (url, target_request, headless)
    url,             \* per call: the local `url` after line 18
    target_request,  \* per call: the local `target_request` after lines 19-20
    browser,         \* per call: "none" | "open" | "closed"
    captured,        \* per call: the `captured` dict of line 32, in insertion order
    out,             \* per call: the JSONResponse returned, None while running
    nEvents,         \* per call: listener invocations so far
    nRequests,       \* per call and URL: request events recorded as an entry
    nUnmatched,      \* per call and URL: response events that found no open last entry
    alternation      \* per call and URL: "idle" | "waiting" | "broken", see Alternate

vars == <<pc, query, url, target_request, browser, captured, out,
          nEvents, nRequests, nUnmatched, alternation>>

-----------------------------------------------------------------------------
(* Bounds of the model *)

MaxEvents == 3

(* Program constants *)

MaxUrls == 200

CallIds == {1, 2}

-----------------------------------------------------------------------------
(* Optional values and truthiness *)

None == <<>>

Some(v) == <<v>>

\* `if x:` for an optional text or list: None and the empty value are falsy
Truthy(x) == x # None /\ x[1] # <<>>

\* `if ua:` for the optional user-agent string
TruthyStr(x) == x # None /\ x[1] # ""

-----------------------------------------------------------------------------
(* Text *)

HexDigits == {"0","1","2","3","4","5","6","7","8","9",
              "a","b","c","d","e","f","A","B","C","D","E","F"}

HexVal(ch) ==
    CASE ch = "0" -> 0 [] ch = "1" -> 1 [] ch = "2" -> 2 [] ch = "3" -> 3
      [] ch = "4" -> 4 [] ch = "5" -> 5 [] ch = "6" -> 6 [] ch = "7" -> 7
      [] ch = "8" -> 8 [] ch = "9" -> 9
      [] ch \in {"a", "A"} -> 10 [] ch \in {"b", "B"} -> 11
      [] ch \in {"c", "C"} -> 12 [] ch \in {"d", "D"} -> 13
      [] ch \in {"e", "E"} -> 14 [] ch \in {"f", "F"} -> 15

\* The printable ASCII characters, code 32 first (the grave accent, which a
\* TLA+ string cannot hold, is written by its code point)
Ascii ==
    <<" ","!","\"","#","$","%","&","'","(",")","*","+",",","-",".","/",
      "0","1","2","3","4","5","6","7","8","9",":",";","<","=",">","?",
      "@","A","B","C","D","E","F","G","H","I","J","K","L","M","N","O",
      "P","Q","R","S","T","U","V","W","X","Y","Z","[","\\","]","^","_",
      "U+0060","a","b","c","d","e","f","g","h","i","j","k","l","m","n","o",
      "p","q","r","s","t","u","v","w","x","y","z","{","|","}","~">>

\* The character a lone escaped byte decodes to: itself below 128 (control
\* characters are written by their code), U+FFFD for a byte that is no UTF-8
\* text on its own (errors="replace").
Chr(code) ==
    IF code >= 32 /\ code <= 126 THEN Ascii[code - 31]
    ELSE IF code < 128 THEN "\\x" \o ToString(code)
    ELSE "U+FFFD"

\* urllib.parse.unquote: every "%" followed by two hex digits becomes the
\* character with that code, any other "%" stays; the result is not rescanned
RECURSIVE unquote(_)
unquote(s) ==
    IF s = <<>> THEN <<>>
    ELSE IF s[1] = "%" /\ Len(s) >= 3 /\ s[2] \in HexDigits /\ s[3] \in HexDigits
         THEN <<Chr(16 * HexVal(s[2]) + HexVal(s[3]))>> \o unquote(SubSeq(s, 4, Len(s)))
         ELSE <<s[1]>> \o unquote(Tail(s))

\* Python's `sub in s` on text
Contains(sub, s) ==
    \E i \in 0..(Len(s) - Len(sub)) : SubSeq(s, i + 1, i + Len(sub)) = sub

-----------------------------------------------------------------------------
(* The values the model draws its inputs from.  URLs are short stand-ins:  *)
(* "e/b" for the page, "x%2Fb" for a call whose URL carries an escape, and *)
(* "/anji/b" for a call the fallback heuristic knows.                      *)

PageU == <<"e", "/", "b">>

EscU == <<"x", "%", "2", "F", "b">>

AnjiU == <<"/", "a", "n", "j", "i", "/", "b">>

URLS == {PageU, EscU, AnjiU}

\* the url parameter: the page URL percent-encoded, and a bare host
QueryUrls == {<<"e", "%", "2", "F", "b">>, <<"x">>}

\* the target_request parameter: absent, empty, and an escaped "/b"
QueryTargets == {None, Some(<<>>), Some(<<"%", "2", "F", "b">>)}

UaHeaders == <<<<"user-agent", "curl/8">>>>

\* playwright Request objects; `raises` names the attribute whose read raises
Requests ==
    { [url |-> u, method |-> "GET", headers |-> UaHeaders, post_data |-> None,
       raises |-> ""] : u \in URLS }
    \cup
    { [url |-> u, method |-> "POST", headers |-> <<>>, post_data |-> Some(<<"k", "=", "1">>),
       raises |-> ""] : u \in URLS }
    \cup
    { [url |-> PageU, method |-> "GET", headers |-> <<>>, post_data |-> None,
       raises |-> "headers"],
      [url |-> PageU, method |-> "GET", headers |-> UaHeaders,
       post_data |-> Some(<<"k", "=", "1">>), raises |-> "post_data"] }

\* playwright Response objects, each with the Request it answers
Responses ==
    { [request |-> [url |-> u, method |-> "POST", headers |-> <<>>,
                    post_data |-> Some(<<"k", "=", "1">>), raises |-> ""],
       status |-> 200, headers |-> <<<<"content-type", "text/html">>>>,
       raises |-> ""] : u \in URLS }
    \cup
    { [request |-> [url |-> u, method |-> "GET", headers |-> UaHeaders,
                    post_data |-> None, raises |-> ""],
       status |-> 404, headers |-> <<>>, raises |-> ""] : u \in URLS }
    \cup
    { [request |-> [url |-> PageU, method |-> "GET", headers |-> <<>>,
                    post_data |-> None, raises |-> ""],
       status |-> 200, headers |-> <<>>, raises |-> "headers"] }

\* what page.evaluate("() => navigator.userAgent") gives: None when it raises
UaReads == {None, Some("Mozilla/5.0")}

\* what context.cookies() returns
CookieJars == {<<>>, <<[name |-> <<"s">>, value |-> <<"1">>]>>}

\* the calls of the handler's tail that can raise into line 223
Raisers == {"goto", "cookies", "close"}

-----------------------------------------------------------------------------
(* The `captured` dict: a sequence of [key, val] in insertion order *)

ErrorsKey == <<"_", "_", "e", "r", "r", "o", "r", "s", "_", "_">>

Keys(d) == [i \in 1..Len(d) |-> d[i].key]

HasKey(d, k) == \E i \in 1..Len(d) : d[i].key = k

\* d.get(k): the list under k; a missing key reads as the empty list, which
\* every reader treats like None (`if entries`, `matched or []`)
Get(d, k) ==
    IF HasKey(d, k) THEN d[CHOOSE i \in 1..Len(d) : d[i].key = k].val ELSE <<>>

\* d.setdefault(k, []).append(item)
SetDefaultAppend(d, k, item) ==
    IF HasKey(d, k)
    THEN [i \in 1..Len(d) |->
            IF d[i].key = k THEN [d[i] EXCEPT !.val = Append(@, item)] ELSE d[i]]
    ELSE Append(d, [key |-> k, val |-> <<item>>])

\* d[k][-1]["response"] = resp, for a key that is present with a non-empty list
SetLastResponse(d, k, resp) ==
    [i \in 1..Len(d) |->
        IF d[i].key = k
        THEN [d[i] EXCEPT !.val[Len(d[i].val)].response = Some(resp)]
        ELSE d[i]]

\* traceback.format_exc() of the exception the listener caught
Traceback(attr) == "Traceback: " \o attr

-----------------------------------------------------------------------------
(* The listeners (lines 54-124), as functions from the store to the store *)

\* lines 56-80: the body kept with the entry.  playwright's post_data is text
\* or None, and a read that raises leaves None; empty text is falsy
pd_safe(request) ==
    LET pd == IF request.raises = "post_data" THEN None ELSE request.post_data
    IN  IF Truthy(pd) THEN pd ELSE None

\* does reading the request's method, url or headers raise (lines 84-86)
RequestRaises(request) == request.raises \in {"method", "url", "headers"}

\* does reading the response's request, headers or status raise (lines 103-105)
ResponseRaises(response) == response.raises \in {"request", "headers", "status"}

\* line 113 raises: a read of the request of the response, made only when an
\* entry is synthesized
SynthRaises(req) == req.raises \in {"method", "headers"}

\* faulty variant of LogError: a bare `except: pass`
LogErrorDropped(store, phase, attr) == store

\* lines 94-97 and 121-124: the except branch of a listener
LogError(store, phase, attr) ==
    SetDefaultAppend(store, ErrorsKey, [phase |-> phase, error |-> Traceback(attr)])

\* faulty variant of on_request: `captured[request.url] = [entry]` in place of
\* setdefault(...).append(entry)
on_request_overwrite(store, request) ==
    IF RequestRaises(request)
    THEN SetDefaultAppend(store, ErrorsKey,
                          [phase |-> "request", error |-> Traceback(request.raises)])
    ELSE LET entry == [request |-> [method |-> request.method, url |-> request.url,
                                    headers |-> request.headers,
                                    post_data |-> pd_safe(request)],
                       response |-> None]
         IN  IF HasKey(store, request.url)
             THEN [i \in 1..Len(store) |->
                     IF store[i].key = request.url
                     THEN [store[i] EXCEPT !.val = <<entry>>] ELSE store[i]]
             ELSE Append(store, [key |-> request.url, val |-> <<entry>>])

on_request(store, request) ==
    IF RequestRaises(request)
    THEN LogError(store, "request", request.raises)
    ELSE LET req_info == [method |-> request.method, url |-> request.url,
                          headers |-> request.headers, post_data |-> pd_safe(request)]
         IN  SetDefaultAppend(store, request.url,
                              [request |-> req_info, response |-> None])

\* faulty variant of LastIsOpen: the `is None` test of line 109 left out
LastExists(entries) == entries # <<>> /\ Len(entries) > 0

\* faulty variant of LastIsOpen: the attach branch of line 109 never taken
LastIsOpenNever(entries) == FALSE

\* line 109: the last entry of the URL's list is still waiting for a response
LastIsOpen(entries) ==
    entries # <<>> /\ Len(entries) > 0 /\ entries[Len(entries)].response = None

\* faulty variant of on_response: line 116 moved into the first branch, so a
\* synthesized entry keeps its empty response
on_response_unfilled(store, response) ==
    IF ResponseRaises(response)
    THEN SetDefaultAppend(store, ErrorsKey,
                          [phase |-> "response", error |-> Traceback(response.raises)])
    ELSE LET req == response.request
             resp == [status |-> response.status, headers |-> response.headers]
             entries == Get(store, req.url)
         IN  IF entries # <<>> /\ entries[Len(entries)].response = None
             THEN SetLastResponse(store, req.url, resp)
             ELSE SetDefaultAppend(store, req.url,
                      [request |-> [method |-> req.method, url |-> req.url,
                                    headers |-> req.headers, post_data |-> None],
                       response |-> None])

\* faulty variant of on_response: the response goes to the oldest entry of
\* the list that waits for one, not to the last
on_response_oldest(store, response) ==
    IF ResponseRaises(response)
    THEN LogError(store, "response", response.raises)
    ELSE LET req == response.request
             resp == [status |-> response.status, headers |-> response.headers]
             entries == Get(store, req.url)
             open == {i \in 1..Len(entries) : entries[i].response = None}
         IN  IF open # {}
             THEN LET first == CHOOSE i \in open : \A j \in open : i <= j
                  IN  [i \in 1..Len(store) |->
                         IF store[i].key = req.url
                         THEN [store[i] EXCEPT !.val[first].response = Some(resp)]
                         ELSE store[i]]
             ELSE IF SynthRaises(req)
             THEN LogError(store, "response", req.raises)
             ELSE SetDefaultAppend(store, req.url,
                      [request |-> [method |-> req.method, url |-> req.url,
                                    headers |-> req.headers, post_data |-> None],
                       response |-> Some(resp)])

\* faulty variant of on_response: the entry of line 113 built inside the call
\* of line 114, captured.setdefault(req.url, []).append({...}), so that the
\* key is there before a read of the request raises
on_response_inline_entry(store, response) ==
    IF ResponseRaises(response)
    THEN LogError(store, "response", response.raises)
    ELSE LET req == response.request
             resp == [status |-> response.status, headers |-> response.headers]
             entries == Get(store, req.url)
         IN  IF LastIsOpen(entries)
             THEN SetLastResponse(store, req.url, resp)
             ELSE IF SynthRaises(req)
             THEN LogError(IF HasKey(store, req.url) THEN store
                           ELSE Append(store, [key |-> req.url, val |-> <<>>]),
                           "response", req.raises)
             ELSE SetDefaultAppend(store, req.url,
                      [request |-> [method |-> req.method, url |-> req.url,
                                    headers |-> req.headers, post_data |-> None],
                       response |-> Some(resp)])

on_response(store, response) ==
    IF ResponseRaises(response)
    THEN LogError(store, "response", response.raises)
    ELSE LET req == response.request
             resp == [status |-> response.status, headers |-> response.headers]
             entries == Get(store, req.url)
         IN  IF LastIsOpen(entries)
             THEN SetLastResponse(store, req.url, resp)
             ELSE IF SynthRaises(req)
             THEN LogError(store, "response", req.raises)
             ELSE SetDefaultAppend(store, req.url,
                      [request |-> [method |-> req.method, url |-> req.url,
                                    headers |-> req.headers, post_data |-> None],
                       response |-> Some(resp)])

-----------------------------------------------------------------------------
(* Target selection (lines 150-182) *)

\* the three tests of the cascade, on a key of the store
TargetTest(target, req_url) == Contains(target[1], req_url)

\* faulty variant of PageTest: `req_url == url` alone
PageTestEqualOnly(page, req_url) == req_url = page

PageTest(page, req_url) == Contains(page, req_url) \/ req_url = page

FallbackTest(req_url) ==
    \/ Contains(<<"L","o","o","k","u","p","S","e","r","v","i","c","e">>, req_url)
    \/ Contains(<<"/","a","n","j","i","/">>, req_url)

\* one `for req_url, entries in captured.items()` loop with its break: the
\* first key other than "__errors__" among `passes`, 0 when there is none
FirstIndex(store, passes) ==
    LET hits == {i \in 1..Len(store) :
                    store[i].key # ErrorsKey /\ store[i].key \in passes}
    IN  IF hits = {} THEN 0 ELSE CHOOSE i \in hits : \A j \in hits : i <= j

\* `matched`, `matched_url` after a loop that runs when `run` holds
Pick(store, sel, run, passes) ==
    LET i == FirstIndex(store, passes)
    IN  IF run /\ i # 0
        THEN [matched |-> Some(store[i].val), matched_url |-> Some(store[i].key)]
        ELSE sel

\* faulty variant of NotMatched: the `if not matched:` guards left out
NotMatchedAlways(sel) == TRUE

\* `if not matched:`
NotMatched(sel) == ~Truthy(sel.matched)

SelectByTarget(store, target) ==
    Pick(store, [matched |-> None, matched_url |-> None], Truthy(target),
         IF Truthy(target)
         THEN {k \in {store[i].key : i \in 1..Len(store)} : TargetTest(target, k)}
         ELSE {})

\* faulty variant of SelectByPage: the page-URL loop runs whatever the target
\* loop selected
SelectByPageUnguarded(store, page, sel) ==
    Pick(store, sel, TRUE,
         {k \in {store[i].key : i \in 1..Len(store)} : PageTest(page, k)})

SelectByPage(store, page, sel) ==
    Pick(store, sel, NotMatched(sel),
         {k \in {store[i].key : i \in 1..Len(store)} : PageTest(page, k)})

\* faulty variant of SelectByFallback: falls back to the first captured URL
SelectByFallbackFirst(store, sel) ==
    Pick(store, sel, ~Truthy(sel.matched), {store[i].key : i \in 1..Len(store)})

SelectByFallback(store, sel) ==
    Pick(store, sel, NotMatched(sel),
         {k \in {store[i].key : i \in 1..Len(store)} : FallbackTest(k)})

Select(store, page, target) ==
    SelectByFallback(store, SelectByPage(store, page, SelectByTarget(store, target)))

-----------------------------------------------------------------------------
(* Assembly (lines 136-147 and 185-221) *)

\* headers.setdefault(name, value) on an ordered mapping of <<name, value>>
SetDefaultHeader(headers, name, value) ==
    IF \E i \in 1..Len(headers) : headers[i][1] = name
    THEN headers
    ELSE Append(headers, <<name, value>>)

normalize_entry(e, ua) ==
    LET req == e.request
        headers == IF TruthyStr(ua)
                   THEN SetDefaultHeader(req.headers, "User-Agent", ua[1])
                   ELSE req.headers
    IN  [request |-> [method |-> req.method, url |-> req.url,
                      headers |-> headers, post_data |-> req.post_data],
         response |-> e.response]

\* d[k] = v on an ordered mapping: a key keeps its place, its value is replaced
DictSet(d, k, v) ==
    IF \E i \in 1..Len(d) : d[i][1] = k
    THEN [i \in 1..Len(d) |-> IF d[i][1] = k THEN <<k, v>> ELSE d[i]]
    ELSE Append(d, <<k, v>>)

\* line 144: {c["name"]: c["value"] for c in cookies}
RECURSIVE cookie_dict(_)
cookie_dict(cookies) ==
    IF cookies = <<>> THEN <<>>
    ELSE LET last == cookies[Len(cookies)]
         IN  DictSet(cookie_dict(SubSeq(cookies, 1, Len(cookies) - 1)),
                     last.name, last.value)

\* sep.join(parts)
RECURSIVE Join(_, _)
Join(sep, parts) ==
    IF parts = <<>> THEN <<>>
    ELSE IF Len(parts) = 1 THEN parts[1]
    ELSE parts[1] \o sep \o Join(sep, Tail(parts))

\* line 147 with ";" for the separator
cookie_header_semicolon(dict) ==
    Join(<<";">>, [i \in 1..Len(dict) |-> dict[i][1] \o <<"=">> \o dict[i][2]])

\* line 147: "; ".join([f"{k}={v}" for k, v in cookie_dict.items()])
cookie_header(dict) ==
    Join(<<";", " ">>, [i \in 1..Len(dict) |-> dict[i][1] \o <<"=">> \o dict[i][2]])

\* line 206 without the filter on the key
all_req_urls_unfiltered(store) ==
    LET urls == Keys(store)
    IN  SubSeq(urls, 1, IF Len(urls) < MaxUrls THEN Len(urls) ELSE MaxUrls)

\* line 206: [u for u in captured.keys() if u != "__errors__"][:200]
all_req_urls(store) ==
    LET IsUrl(k) == k # ErrorsKey
        urls == SelectSeq(Keys(store), IsUrl)
    IN  SubSeq(urls, 1, IF Len(urls) < MaxUrls THEN Len(urls) ELSE MaxUrls)

\* faulty variant of SuccessResponse: total_requests_captured |-> len(captured)
SuccessResponseCountsKeys(store, page, target, ua, cookies) ==
    LET sel == Select(store, page, target)
        matched == IF Truthy(sel.matched) THEN sel.matched[1] ELSE <<>>
        dict == cookie_dict(cookies)
    IN  [status_code |-> 200,
         body |-> [page_url |-> page,
                   matched_request_url |->
                       IF Truthy(sel.matched_url) THEN sel.matched_url ELSE None,
                   matched_entries |->
                       [i \in 1..Len(matched) |-> normalize_entry(matched[i], ua)],
                   cookies_dict |-> dict,
                   cookie_header |-> cookie_header(dict),
                   user_agent |-> ua,
                   all_captured_request_urls |-> all_req_urls(store),
                   total_requests_captured |-> Len(store),
                   errors |-> Get(store, ErrorsKey)]]

\* lines 203 and 211-221: the answer of a call that got through
SuccessResponse(store, page, target, ua, cookies) ==
    LET sel == Select(store, page, target)
        matched == IF Truthy(sel.matched) THEN sel.matched[1] ELSE <<>>
        dict == cookie_dict(cookies)
    IN  [status_code |-> 200,
         body |-> [page_url |-> page,
                   matched_request_url |->
                       IF Truthy(sel.matched_url) THEN sel.matched_url ELSE None,
                   matched_entries |->
                       [i \in 1..Len(matched) |-> normalize_entry(matched[i], ua)],
                   cookies_dict |-> dict,
                   cookie_header |-> cookie_header(dict),
                   user_agent |-> ua,
                   all_captured_request_urls |-> all_req_urls(store),
                   total_requests_captured |-> Len(all_req_urls(store)),
                   errors |-> Get(store, ErrorsKey)]]

\* faulty variant of ErrorResponse: the error added to a half-built answer
ErrorResponsePartial(e) ==
    [status_code |-> 500,
     body |-> [error |-> e, trace |-> Traceback(e),
               matched_request_url |-> None, matched_entries |-> <<>>]]

\* line 224: the answer of a call whose exception reached the handler
ErrorResponse(e) ==
    [status_code |-> 500, body |-> [error |-> e, trace |-> Traceback(e)]]

-----------------------------------------------------------------------------
(* The browser session *)

\* line 209
BrowserClose(b) == "closed"

\* faulty variant of PlaywrightExit: sync_playwright().start() with no stop()
PlaywrightExitLeak(b) == b

\* leaving `with sync_playwright() as p:` (line 22) stops the playwright
\* driver, which ends every browser it launched
PlaywrightExit(b) == IF b = "open" THEN "closed" ELSE b

-----------------------------------------------------------------------------
(* Record of the events, for the properties that count them *)

\* the URL's list is missing, empty, or ends with a completed entry
NoOpenLast(store, u) ==
    \/ ~HasKey(store, u)
    \/ Get(store, u) = <<>>
    \/ Get(store, u)[Len(Get(store, u))].response # None

\* on_response ends in its except branch when it handles `response`
ResponseFails(store, response) ==
    \/ ResponseRaises(response)
    \/ NoOpenLast(store, response.request.url) /\ SynthRaises(response.request)

\* Whether the recorded requests and responses of a URL have alternated so
\* far: "idle" when every recorded request has had its response, "waiting"
\* when exactly one request is unanswered, "broken" from the moment a request
\* arrives while one is unanswered or a response arrives while none is.
Alternate(state, kind) ==
    IF kind = "request"
    THEN (IF state = "idle" THEN "waiting" ELSE "broken")
    ELSE (IF state = "waiting" THEN "idle" ELSE "broken")

-----------------------------------------------------------------------------
(* The handler, call by call *)

Init ==
    /\ pc = [c \in CallIds |-> "Idle"]
    /\ query = [c \in CallIds |-> None]
    /\ url = [c \in CallIds |-> None]
    /\ target_request = [c \in CallIds |-> None]
    /\ browser = [c \in CallIds |-> "none"]
    /\ captured = [c \in CallIds |-> <<>>]
    /\ out = [c \in CallIds |-> None]
    /\ nEvents = [c \in CallIds |-> 0]
    /\ nRequests = [c \in CallIds |-> [u \in URLS |-> 0]]
    /\ nUnmatched = [c \in CallIds |-> [u \in URLS |-> 0]]
    /\ alternation = [c \in CallIds |-> [u \in URLS |-> "idle"]]

\* lines 16-33, 127-128: decode the parameters, open the session, attach the
\* listeners; an exception of launch / new_context / new_page goes to line 223.
\* The parameters are drawn from `urls` and `targets`.
Start(c, urls, targets) ==
    /\ pc[c] = "Idle"
    /\ \E u \in urls, t \in targets, step \in {"ok", "launch", "new_page"} :
        /\ query' = [query EXCEPT ![c] =
                        Some([url |-> u, target_request |-> t, headless |-> FALSE])]
        /\ url' = [url EXCEPT ![c] = Some(unquote(u))]
        /\ target_request' = [target_request EXCEPT ![c] =
                                IF Truthy(t) THEN Some(unquote(t[1])) ELSE t]
        /\ IF step = "ok"
           THEN /\ pc' = [pc EXCEPT ![c] = "Navigating"]
                /\ browser' = [browser EXCEPT ![c] = "open"]
                /\ captured' = [captured EXCEPT ![c] = <<>>]
                /\ out' = [out EXCEPT ![c] = None]
           ELSE /\ pc' = [pc EXCEPT ![c] = "Failed"]
                /\ browser' = [browser EXCEPT ![c] =
                                 PlaywrightExit(IF step = "launch" THEN "none" ELSE "open")]
                /\ captured' = captured
                /\ out' = [out EXCEPT ![c] = Some(ErrorResponse(step))]
    /\ UNCHANGED <<nEvents, nRequests, nUnmatched, alternation>>

\* faulty variant of OnRequestFrom: `captured` a module-level dict, one for
\* all calls
OnRequestFromShared(c, requests, limit) ==
    /\ pc[c] = "Navigating"
    /\ nEvents[c] < limit
    /\ \E request \in requests :
        /\ captured' = [captured EXCEPT ![1] = on_request(@, request)]
        /\ IF RequestRaises(request) \/ request.url \notin URLS
           THEN UNCHANGED <<nRequests, alternation>>
           ELSE /\ nRequests' = [nRequests EXCEPT ![c][request.url] = @ + 1]
                /\ alternation' = [alternation EXCEPT ![c][request.url] =
                                      Alternate(@, "request")]
    /\ nEvents' = [nEvents EXCEPT ![c] = @ + 1]
    /\ UNCHANGED <<pc, query, url, target_request, browser, out, nUnmatched>>

\* a request event, one of `requests`, reaches on_request while the page
\* loads (lines 130-143); `limit` bounds the listener invocations of the call
OnRequestFrom(c, requests, limit) ==
    /\ pc[c] = "Navigating"
    /\ nEvents[c] < limit
    /\ \E request \in requests :
        /\ captured' = [captured EXCEPT ![c] = on_request(@, request)]
        /\ IF RequestRaises(request) \/ request.url \notin URLS
           THEN UNCHANGED <<nRequests, alternation>>
           ELSE /\ nRequests' = [nRequests EXCEPT ![c][request.url] = @ + 1]
                /\ alternation' = [alternation EXCEPT ![c][request.url] =
                                      Alternate(@, "request")]
    /\ nEvents' = [nEvents EXCEPT ![c] = @ + 1]
    /\ UNCHANGED <<pc, query, url, target_request, browser, out, nUnmatched>>

OnRequest(c) == OnRequestFrom(c, Requests, MaxEvents)

\* a response event, one of `responses`, reaches on_response while the page
\* loads
OnResponseFrom(c, responses, limit) ==
    /\ pc[c] = "Navigating"
    /\ nEvents[c] < limit
    /\ \E response \in responses :
        /\ captured' = [captured EXCEPT ![c] = on_response(@, response)]
        /\ IF ResponseFails(captured[c], response) \/ response.request.url \notin URLS
           THEN UNCHANGED <<nUnmatched, alternation>>
           ELSE /\ nUnmatched' = [nUnmatched EXCEPT ![c][response.request.url] =
                                    IF NoOpenLast(captured[c], response.request.url)
                                    THEN @ + 1 ELSE @]
                /\ alternation' = [alternation EXCEPT ![c][response.request.url] =
                                      Alternate(@, "response")]
    /\ nEvents' = [nEvents EXCEPT ![c] = @ + 1]
    /\ UNCHANGED <<pc, query, url, target_request, browser, out, nRequests>>

OnResponse(c) == OnResponseFrom(c, Responses, MaxEvents)

\* page.goto / wait_for_load_state / wait_for_timeout (132-134, the
\* navigation timeout included), context.cookies (143) or browser.close (209)
\* raises: the exception leaves the with block and line 224 answers
Abort(c) ==
    /\ pc[c] = "Navigating"
    /\ \E r \in Raisers :
        out' = [out EXCEPT ![c] = Some(ErrorResponse(r))]
    /\ pc' = [pc EXCEPT ![c] = "Failed"]
    /\ browser' = [browser EXCEPT ![c] = PlaywrightExit(@)]
    /\ UNCHANGED <<query, url, target_request, captured, nEvents, nRequests, nUnmatched,
                   alternation>>

\* lines 136-221 run through: user agent, cookies, selection, assembly, close;
\* the user agent read is one of `uas`, the cookies one of `jars`
FinishWith(c, uas, jars) ==
    /\ pc[c] = "Navigating"
    /\ \E ua \in uas, cookies \in jars :
        out' = [out EXCEPT ![c] =
                  Some(SuccessResponse(captured[c], url[c][1], target_request[c],
                                       ua, cookies))]
    /\ pc' = [pc EXCEPT ![c] = "Done"]
    /\ browser' = [browser EXCEPT ![c] = PlaywrightExit(BrowserClose(@))]
    /\ UNCHANGED <<query, url, target_request, captured, nEvents, nRequests, nUnmatched,
                   alternation>>

Finish(c) == FinishWith(c, UaReads, CookieJars)

Step(c, urls, targets) ==
    \/ Start(c, urls, targets)
    \/ OnRequest(c)
    \/ OnResponse(c)
    \/ Abort(c)
    \/ Finish(c)

\* one extraction call, with every parameter of the input sets
Next == Step(1, QueryUrls, QueryTargets)

Spec == Init /\ [][Next]_vars

\* one extraction call of the page URL with no target_request: the listeners
\* see the same events, the parameters play no part in what they store
CaptureNext == Step(1, {<<"e", "%", "2", "F", "b">>}, {None})

SpecCapture == Init /\ [][CaptureNext]_vars

-----------------------------------------------------------------------------
(* Vocabulary of the properties *)

\* the entry list of URL u in call c, before and after a step
List(c, u) == Get(captured[c], u)

ListAfter(c, u) == Get(captured'[c], u)

\* the ErrorLog of call c, before and after a step
Errors(c) == Get(captured[c], ErrorsKey)

ErrorsAfter(c) == Get(captured'[c], ErrorsKey)

\* the step is a listener invocation of call c
EventStep(c) ==
    /\ pc[c] = "Navigating" /\ pc'[c] = "Navigating"
    /\ nEvents'[c] = nEvents[c] + 1

\* the step is on_request handling `request` / on_response handling `response`
RequestStep(c, request) ==
    /\ EventStep(c)
    /\ captured'[c] = on_request(captured[c], request)
    /\ nRequests'[c][request.url] =
           nRequests[c][request.url] + (IF RequestRaises(request) THEN 0 ELSE 1)
    /\ nUnmatched' = nUnmatched

ResponseStep(c, response) ==
    /\ EventStep(c)
    /\ captured'[c] = on_response(captured[c], response)
    /\ nRequests' = nRequests

\* the indices of the entries of a list that still wait for a response
OpenIndices(entries) == {i \in 1..Len(entries) : entries[i].response = None}

\* the number of entries under the URL keys of a store
RECURSIVE TotalEntries(_)
TotalEntries(store) ==
    IF store = <<>> THEN 0
    ELSE (IF store[1].key = ErrorsKey THEN 0 ELSE Len(store[1].val))
         + TotalEntries(Tail(store))

\* what the response event carries
ResponseInfo(response) == [status |-> response.status, headers |-> response.headers]

-----------------------------------------------------------------------------
(* C1: responses attach in FIFO order: a response event for a URL that has *)
(* entries still waiting fills the oldest waiting entry of that URL.       *)
C1_FifoAttach ==
    [][\A c \in CallIds, response \in Responses :
          LET u == response.request.url
              open == OpenIndices(List(c, u))
          IN  (ResponseStep(c, response) /\ response.raises = "" /\ open # {})
              => LET first == CHOOSE i \in open : \A j \in open : i <= j
                 IN  ListAfter(c, u)[first].response = Some(ResponseInfo(response))
      ]_vars

(* C2: a response whose URL has no entry waiting at the end of its list    *)
(* (no list, or a last entry already answered) adds exactly one entry,     *)
(* built from response.request with no post_data and with the response     *)
(* filled, and changes nothing else in the store.                          *)
C2_SynthesizeOne ==
    [][\A c \in CallIds, response \in Responses :
          LET u == response.request.url
              req == response.request
              entry == [request |-> [method |-> req.method, url |-> u,
                                     headers |-> req.headers, post_data |-> None],
                        response |-> Some(ResponseInfo(response))]
          IN  (ResponseStep(c, response) /\ response.raises = ""
                 /\ NoOpenLast(captured[c], u))
              => /\ ListAfter(c, u) = Append(List(c, u), entry)
                 /\ TotalEntries(captured'[c]) = TotalEntries(captured[c]) + 1
                 /\ \A v \in URLS \ {u} : ListAfter(c, v) = List(c, v)
                 /\ ErrorsAfter(c) = Errors(c)
      ]_vars

\* a list made of one synthesized entry: the POST body of response.request
\* was not kept
C2_Witness ==
    \E u \in URLS :
        /\ nUnmatched[1][u] = 1 /\ nRequests[1][u] = 0
        /\ Len(List(1, u)) = 1
        /\ List(1, u)[1].request.method = "POST"
        /\ List(1, u)[1].request.post_data = None
        /\ List(1, u)[1].response # None

(* C3: an entry whose response is set keeps that response through every    *)
(* later request or response event.                                        *)
C3_ResponseImmutable ==
    [][\A c \in CallIds :
          EventStep(c)
          => \A u \in URLS : \A i \in 1..Len(List(c, u)) :
                List(c, u)[i].response # None
                => /\ i <= Len(ListAfter(c, u))
                   /\ ListAfter(c, u)[i].response = List(c, u)[i].response
      ]_vars

\* a completed entry followed by an entry that a later response created
C3_Witness ==
    \E u \in URLS :
        /\ Len(List(1, u)) >= 2
        /\ List(1, u)[1].response # None
        /\ nUnmatched[1][u] >= 1 /\ nRequests[1][u] >= 1

(* C4: the number of entries of a URL equals the number of request events  *)
(* recorded for it, and a response event never lengthens a list.           *)
C4_AppendOnlyAtRequest ==
    [][\A c \in CallIds :
          /\ \A u \in URLS : Len(ListAfter(c, u)) = nRequests'[c][u]
          /\ (\E response \in Responses : ResponseStep(c, response))
             => \A u \in URLS : Len(ListAfter(c, u)) <= Len(List(c, u))
      ]_vars

(* C4, amended: the number of entries of a URL equals the number of        *)
(* request events recorded for it plus the number of response events that  *)
(* found its list missing or ending with an answered entry; a response     *)
(* event lengthens its URL's list by one in exactly that case and never    *)
(* lengthens another list.                                                 *)
C4_AppendAtRequestOrUnmatched ==
    [][\A c \in CallIds :
          /\ \A u \in URLS :
                Len(ListAfter(c, u)) = nRequests'[c][u] + nUnmatched'[c][u]
          /\ \A response \in Responses :
                (ResponseStep(c, response) /\ response.raises = "")
                => \A u \in URLS :
                      Len(ListAfter(c, u)) =
                          Len(List(c, u))
                          + (IF u = response.request.url /\ NoOpenLast(captured[c], u)
                             THEN 1 ELSE 0)
      ]_vars

\* a URL with one entry from a request and one from an unmatched response
C4_Witness ==
    \E u \in URLS :
        nRequests[1][u] = 1 /\ nUnmatched[1][u] = 1 /\ Len(List(1, u)) = 2

(* C5: a listener that raises is contained: the call goes on, exactly one  *)
(* ErrorLog entry with the listener's phase is appended, and a request     *)
(* event that arrives after an error is recorded as a new entry.           *)
C5_ListenerErrorContained ==
    [][\A c \in CallIds :
          /\ \A request \in Requests :
                RequestStep(c, request)
                => IF request.raises \in {"method", "url", "headers"}
                   THEN /\ Len(ErrorsAfter(c)) = Len(Errors(c)) + 1
                        /\ SubSeq(ErrorsAfter(c), 1, Len(Errors(c))) = Errors(c)
                        /\ ErrorsAfter(c)[Len(ErrorsAfter(c))].phase = "request"
                        /\ pc'[c] = "Navigating" /\ out'[c] = None
                   ELSE /\ Len(ListAfter(c, request.url)) = Len(List(c, request.url)) + 1
                        /\ ListAfter(c, request.url)[Len(ListAfter(c, request.url))].response
                               = None
                        /\ ErrorsAfter(c) = Errors(c)
          /\ \A response \in Responses :
                (ResponseStep(c, response) /\ response.raises # "")
                => /\ Len(ErrorsAfter(c)) = Len(Errors(c)) + 1
                   /\ SubSeq(ErrorsAfter(c), 1, Len(Errors(c))) = Errors(c)
                   /\ ErrorsAfter(c)[Len(ErrorsAfter(c))].phase = "response"
                   /\ pc'[c] = "Navigating" /\ out'[c] = None
      ]_vars

\* a call that answered with success after one failed response callback and
\* a request recorded under a key first seen after the failure
C5_Witness ==
    /\ pc[1] = "Done"
    /\ out[1][1].status_code = 200
    /\ Len(out[1][1].body.errors) = 1
    /\ out[1][1].body.errors[1].phase = "response"
    /\ \E i, j \in 1..Len(captured[1]) :
          /\ i < j
          /\ captured[1][i].key = ErrorsKey
          /\ captured[1][j].key # ErrorsKey
          /\ captured[1][j].val[1].response = None

-----------------------------------------------------------------------------
(* Vocabulary of the selection properties *)

\* the parameters call c received and the answer it gave
Param(c) == query[c][1]

Body(c) == out[c][1].body

\* the URL keys of the store of call c, in first-observed order
UrlKeys(c) ==
    LET IsUrl(k) == k # ErrorsKey
    IN  SelectSeq(Keys(captured[c]), IsUrl)

\* the first of the URL keys that contain `text`, None when none does
FirstKeyContaining(c, text) ==
    LET hits == {i \in 1..Len(UrlKeys(c)) : Contains(text, UrlKeys(c)[i])}
    IN  IF hits = {} THEN None
        ELSE Some(UrlKeys(c)[CHOOSE i \in hits : \A j \in hits : i <= j])

\* the answer reports key k and the entries stored under it
Reports(c, k) ==
    /\ Body(c).matched_request_url = Some(k)
    /\ Len(Body(c).matched_entries) = Len(List(c, k))
    /\ \A i \in 1..Len(List(c, k)) :
          /\ Body(c).matched_entries[i].request.url = k
          /\ Body(c).matched_entries[i].request.method = List(c, k)[i].request.method
          /\ Body(c).matched_entries[i].request.post_data = List(c, k)[i].request.post_data
          /\ Body(c).matched_entries[i].response = List(c, k)[i].response

\* the keys of the answer of a call that got through, and of one that failed
SuccessKeys ==
    {"page_url", "matched_request_url", "matched_entries", "cookies_dict",
     "cookie_header", "user_agent", "all_captured_request_urls",
     "total_requests_captured", "errors"}

ErrorKeys == {"error", "trace"}

(* C6: with a target_request given (non-empty) and a captured URL key that *)
(* contains it, the answer is the list of the first such key.              *)
C6_TargetAsReceived ==
    \A c \in CallIds :
        (pc[c] = "Done" /\ Truthy(Param(c).target_request))
        => LET k == FirstKeyContaining(c, Param(c).target_request[1])
           IN  k # None => Reports(c, k[1])

(* C6, amended: with a non-empty target_request and a captured URL key     *)
(* that contains the percent-decoded target_request (the handler unquotes  *)
(* the parameter before it matches), the answer is the list of the first   *)
(* such key in first-observed order, whatever the page URL is and whatever *)
(* the page-URL and fallback rules would match.                            *)
C6_TargetDecoded ==
    \A c \in CallIds :
        (pc[c] = "Done" /\ Truthy(Param(c).target_request))
        => LET k == FirstKeyContaining(c, unquote(Param(c).target_request[1]))
           IN  k # None => Reports(c, k[1])

\* the target matches the second-seen key "e/b" only after decoding, while
\* the page-URL rule (page "x") would have taken the first-seen "x%2Fb"
C6_Witness ==
    /\ pc[1] = "Done"
    /\ Param(1).target_request = Some(<<"%", "2", "F", "b">>)
    /\ url[1] = Some(<<"x">>)
    /\ UrlKeys(1) = <<EscU, PageU>>
    /\ Body(1).matched_request_url = Some(PageU)

(* C7: with no target_request (absent or empty), the answer is the list of *)
(* the first captured URL key that equals or contains the navigated page   *)
(* URL; a key that does not contain the page URL (an API call) is not the  *)
(* one reported when the page URL is among the keys.                       *)
C7_PageUrlRule ==
    \A c \in CallIds :
        (pc[c] = "Done" /\ ~Truthy(Param(c).target_request))
        => LET page == unquote(Param(c).url)
               k == FirstKeyContaining(c, page)
           IN  /\ Body(c).page_url = page
               /\ k # None => Reports(c, k[1])
               /\ (\E i \in 1..Len(UrlKeys(c)) : UrlKeys(c)[i] = page)
                  => Contains(page, Body(c).matched_request_url[1])

\* page "e/b" seen after "/anji/b", which the fallback rule knows and which
\* does not contain the page URL: the page URL is reported
C7_Witness ==
    /\ pc[1] = "Done"
    /\ Param(1).target_request = None
    /\ url[1] = Some(PageU)
    /\ UrlKeys(1) = <<AnjiU, PageU>>
    /\ Body(1).matched_request_url = Some(PageU)

\* no URL key of call c passes any of the three rules
SelectionMiss(c) ==
    \A i \in 1..Len(UrlKeys(c)) :
        LET k == UrlKeys(c)[i]
        IN  /\ ~(Truthy(target_request[c]) /\ Contains(target_request[c][1], k))
            /\ ~(Contains(url[c][1], k) \/ k = url[c][1])
            /\ ~Contains(<<"L","o","o","k","u","p","S","e","r","v","i","c","e">>, k)
            /\ ~Contains(<<"/","a","n","j","i","/">>, k)

(* C8: a selection miss is not a failure: the call answers with the        *)
(* success shape, matched_request_url null and matched_entries empty, and  *)
(* still reports the cookies, the captured URLs and the errors.            *)
C8_SelectionMissIsSuccess ==
    \A c \in CallIds :
        (pc[c] = "Done" /\ SelectionMiss(c))
        => /\ out[c][1].status_code = 200
           /\ DOMAIN Body(c) = SuccessKeys
           /\ Body(c).matched_request_url = None
           /\ Body(c).matched_entries = <<>>
           /\ Body(c).all_captured_request_urls = UrlKeys(c)
           /\ Body(c).errors = Errors(c)
           /\ Body(c).cookie_header = cookie_header(Body(c).cookies_dict)

\* a miss with a captured URL, a logged error and a cookie to report
C8_Witness ==
    /\ pc[1] = "Done"
    /\ SelectionMiss(1)
    /\ UrlKeys(1) = <<EscU>>
    /\ Errors(1) # <<>>
    /\ Body(1).cookies_dict # <<>>
    /\ Body(1).matched_request_url = None

(* C9: every answer is either the complete success shape or the error      *)
(* shape {error, trace}; a call that failed answers with the error shape   *)
(* only, whatever it had captured.                                         *)
C9_SuccessOrErrorShape ==
    \A c \in CallIds :
        /\ pc[c] \in {"Idle", "Navigating"} => out[c] = None
        /\ pc[c] = "Done"
           => /\ out[c] # None
              /\ out[c][1].status_code = 200
              /\ DOMAIN Body(c) = SuccessKeys
        /\ pc[c] = "Failed"
           => /\ out[c] # None
              /\ out[c][1].status_code = 500
              /\ DOMAIN Body(c) = ErrorKeys

\* a call that failed after it had captured traffic
C9_Witness ==
    /\ pc[1] = "Failed"
    /\ UrlKeys(1) # <<>>
    /\ Body(1).error = "goto"
    /\ DOMAIN Body(1) = ErrorKeys

-----------------------------------------------------------------------------
(* The cookie header, over a wider choice of cookie jars *)

\* the most cookies a jar of the wide choice holds
MaxCookies == 2

\* cookie names and values; the values include the empty text, the two
\* characters of the separator on their own and a value holding the separator
CookieNames == {<<"s">>, <<"t">>, <<"u">>}

CookieValues == {<<"1">>, <<>>, <<";">>, <<" ">>, <<"a", ";", " ", "b">>}

\* what context.cookies() may return (line 143): up to MaxCookies cookies,
\* two of the same name included
WideJars ==
    UNION {[1..n -> [name : CookieNames, value : CookieValues]] : n \in 0..MaxCookies}

\* Python's s.split(sep): cut at every occurrence of sep, leftmost first
RECURSIVE Split(_, _)
Split(sep, s) ==
    IF ~Contains(sep, s) THEN <<s>>
    ELSE LET at == CHOOSE i \in 0..(Len(s) - Len(sep)) :
                     /\ SubSeq(s, i + 1, i + Len(sep)) = sep
                     /\ \A j \in 0..(i - 1) : SubSeq(s, j + 1, j + Len(sep)) # sep
         IN  <<SubSeq(s, 1, at)>> \o Split(sep, SubSeq(s, at + Len(sep) + 1, Len(s)))

\* one call of a page that sends nothing, with every jar of the wide choice
CookieNext ==
    \/ Start(1, {<<"x">>}, {None})
    \/ FinishWith(1, UaReads, WideJars)

SpecCookies == Init /\ [][CookieNext]_vars

\* the key=value texts of the cookies_dict of an answer, in its order
CookiePairs(dict) == [i \in 1..Len(dict) |-> dict[i][1] \o <<"=">> \o dict[i][2]]

\* the pieces of the cookie_header of an answer
HeaderPieces(header) == Split(<<";", " ">>, header)

Range(seq) == {seq[i] : i \in 1..Len(seq)}

\* C11 as stated: for every cookie set, the empty one and values holding
\* separator characters included, the pieces of cookie_header split on "; "
\* are exactly the key=value pairs of cookies_dict.
C11_SplitRecoversPairs ==
    \A c \in CallIds :
        pc[c] = "Done" =>
            Range(HeaderPieces(Body(c).cookie_header))
                = Range(CookiePairs(Body(c).cookies_dict))

\* C11, amended: when cookies_dict is not empty and none of its key=value
\* texts holds "; ", the pieces of cookie_header split on "; " are those
\* texts, one each and in the order of cookies_dict; for the empty
\* cookies_dict cookie_header is the empty text, whose split is one empty
\* piece.
C11_SplitRecoversCleanPairs ==
    \A c \in CallIds :
        pc[c] = "Done" =>
            LET pairs == CookiePairs(Body(c).cookies_dict)
                pieces == HeaderPieces(Body(c).cookie_header)
            IN  /\ pairs = <<>> =>
                    /\ Body(c).cookie_header = <<>>
                    /\ pieces = << <<>> >>
                /\ (pairs # <<>> /\ \A i \in 1..Len(pairs) :
                                       ~Contains(<<";", " ">>, pairs[i]))
                    => pieces = pairs

\* an answer with two cookies, one of them with a ";" of its own in its
\* value, split back into its two pairs
C11_Witness ==
    \E c \in CallIds :
        /\ pc[c] = "Done"
        /\ Len(Body(c).cookies_dict) = 2
        /\ \E i \in 1..2 : Contains(<<";">>, Body(c).cookies_dict[i][2])
        /\ \A i \in 1..2 :
               ~Contains(<<";", " ">>, CookiePairs(Body(c).cookies_dict)[i])
        /\ Len(HeaderPieces(Body(c).cookie_header)) = 2

-----------------------------------------------------------------------------
(* A page that calls many distinct URLs *)

\* the most numbered URLs a call sees: one past the cap of line 206
ManyUrls == 201

RECURSIVE Decimal(_)
Decimal(n) ==
    LET digit(d) == <<"0", "1", "2", "3", "4", "5", "6", "7", "8", "9">>[d + 1]
    IN  IF n < 10 THEN <<digit(n)>> ELSE Decimal(n \div 10) \o <<digit(n % 10)>>

\* the n-th URL the page calls for the first time, "u/<n>"
NumberedUrl(n) == <<"u", "/">> \o Decimal(n)

NumberedRequest(n) ==
    [url |-> NumberedUrl(n), method |-> "GET", headers |-> UaHeaders,
     post_data |-> None, raises |-> ""]

IsNumbered(k) == k \notin URLS /\ k # ErrorsKey

\* the numbered URLs call c has stored so far
NumberedKeys(c) == SelectSeq(Keys(captured[c]), IsNumbered)

\* the first events of the call: a request for the page itself, again and
\* again, and a request that on_request fails on
ManyVaried ==
    { [url |-> PageU, method |-> "GET", headers |-> UaHeaders, post_data |-> None,
       raises |-> ""],
      [url |-> PageU, method |-> "GET", headers |-> <<>>, post_data |-> None,
       raises |-> "headers"] }

\* a request for a URL the call has not seen yet
NewUrlRequest(c) ==
    /\ Len(NumberedKeys(c)) < ManyUrls
    /\ OnRequestFrom(c, {NumberedRequest(Len(NumberedKeys(c)) + 1)}, ManyUrls + MaxEvents)

\* one call whose page requests up to ManyUrls distinct URLs, its first
\* MaxEvents events mixed with repeated and failing requests
ManyNext ==
    \/ Start(1, {<<"e", "%", "2", "F", "b">>}, {None})
    \/ OnRequestFrom(1, ManyVaried, MaxEvents)
    \/ NewUrlRequest(1)
    \/ Finish(1)

SpecMany == Init /\ [][ManyNext]_vars

Min(a, b) == IF a < b THEN a ELSE b

\* C13: in the answer of a call that got through, all_captured_request_urls
\* lists the distinct captured URLs once each, in first-observed order (the
\* numbered URLs by their number), never holds the ErrorLog key and never
\* more than 200 elements, of the URLs observed the first 200; errors is
\* the ErrorLog as accumulated.
C13_UrlListAndErrors ==
    \A c \in CallIds :
        pc[c] = "Done" =>
            LET urls == Body(c).all_captured_request_urls
                numbered == SelectSeq(urls, IsNumbered)
            IN  /\ Cardinality(Range(urls)) = Len(urls)
                /\ ErrorsKey \notin Range(urls)
                /\ Len(urls) <= 200
                /\ urls = SubSeq(UrlKeys(c), 1, Min(Len(UrlKeys(c)), 200))
                /\ \A n \in 1..Len(numbered) : numbered[n] = NumberedUrl(n)
                /\ Body(c).errors = Errors(c)

\* an answer after more than 200 distinct URLs, the page URL among them, and
\* a failed listener whose ErrorLog key sits among the first keys
C13_Witness ==
    \E c \in CallIds :
        /\ pc[c] = "Done"
        /\ Len(UrlKeys(c)) > 200
        /\ Len(Body(c).all_captured_request_urls) = 200
        /\ PageU \in Range(Body(c).all_captured_request_urls)
        /\ Len(Body(c).errors) > 0
        /\ \E i \in 1..3 : Keys(captured[c])[i] = ErrorsKey

-----------------------------------------------------------------------------
(* Selection, over pages that also call a LookupService URL *)

LookupU == <<"L", "o", "o", "k", "u", "p", "S", "e", "r", "v", "i", "c", "e">>

\* one recorded request for each URL the three rules tell apart
SelectRequests ==
    { [url |-> u, method |-> "GET", headers |-> UaHeaders, post_data |-> None,
       raises |-> ""] : u \in URLS \cup {LookupU} }

\* one call with every parameter of the input sets, its page requesting any
\* of the four URLs in any order
SelectNext ==
    \/ Start(1, QueryUrls, QueryTargets)
    \/ OnRequestFrom(1, SelectRequests, MaxEvents)
    \/ Finish(1)

SpecSelect == Init /\ [][SelectNext]_vars

\* the first URL key of call c that is in `keys`, None when none is
FirstKeyIn(c, keys) ==
    LET hits == {i \in 1..Len(UrlKeys(c)) : UrlKeys(c)[i] \in keys}
    IN  IF hits = {} THEN None
        ELSE Some(UrlKeys(c)[CHOOSE i \in hits : \A j \in hits : i <= j])

\* what each rule on its own would select for call c
ByTargetRule(c) ==
    IF Truthy(target_request[c])
    THEN FirstKeyContaining(c, target_request[c][1])
    ELSE None

ByPageRule(c) == FirstKeyContaining(c, url[c][1])

ByFallbackRule(c) ==
    FirstKeyIn(c, {k \in Range(UrlKeys(c)) :
                     \/ Contains(LookupU, k)
                     \/ Contains(<<"/", "a", "n", "j", "i", "/">>, k)})

\* C14: the three rules are applied in strict order and never combined: the
\* answer is the list of the key the target rule selects; when that rule
\* selects nothing (target absent, empty or in no key), of the key the
\* page-URL rule selects; when both select nothing, of the first key that
\* contains "LookupService" or "/anji/"; and nothing when no rule selects.
C14_StrictCascade ==
    \A c \in CallIds :
        pc[c] = "Done" =>
            LET chosen == IF ByTargetRule(c) # None THEN ByTargetRule(c)
                          ELSE IF ByPageRule(c) # None THEN ByPageRule(c)
                          ELSE ByFallbackRule(c)
            IN  IF chosen = None
                THEN /\ Body(c).matched_request_url = None
                     /\ Body(c).matched_entries = <<>>
                ELSE Reports(c, chosen[1])

\* the target "/b" selects "/anji/b", seen last: not "x%2Fb" seen first,
\* which the page-URL rule (page "x") would take, nor the LookupService URL
\* seen before it, which the fallback rule would take
C14_Witness ==
    /\ pc[1] = "Done"
    /\ target_request[1] = Some(<<"/", "b">>)
    /\ url[1] = Some(<<"x">>)
    /\ UrlKeys(1) = <<EscU, LookupU, AnjiU>>
    /\ ByTargetRule(1) = Some(AnjiU)
    /\ ByPageRule(1) = Some(EscU)
    /\ ByFallbackRule(1) = Some(LookupU)
    /\ Body(1).matched_request_url = Some(AnjiU)

-----------------------------------------------------------------------------
(* Normalisation of the reported entries *)

\* the spellings of the header name, which HTTP does not tell apart;
\* playwright hands the names over lower-cased
UserAgentNames == {"User-Agent", "user-agent", "USER-AGENT"}

HasUserAgent(headers) == \E i \in 1..Len(headers) : headers[i][1] \in UserAgentNames

\* C15: a reported entry has a User-Agent request header added, with the
\* value read from the browser, only if the stored request headers have none
\* and a value was read; an existing one is kept as it is, and method, url,
\* post_data, the other headers and the response are those stored.
C15_UserAgentOnlyIfMissing ==
    \A c \in CallIds :
        (pc[c] = "Done" /\ Body(c).matched_request_url # None) =>
            LET stored == List(c, Body(c).matched_request_url[1])
                ua == Body(c).user_agent
            IN  \A i \in 1..Len(stored) :
                    LET rep == Body(c).matched_entries[i]
                    IN  /\ rep.request.headers =
                               IF ~HasUserAgent(stored[i].request.headers) /\ TruthyStr(ua)
                               THEN Append(stored[i].request.headers,
                                           <<"User-Agent", ua[1]>>)
                               ELSE stored[i].request.headers
                        /\ rep.request.method = stored[i].request.method
                        /\ rep.request.url = stored[i].request.url
                        /\ rep.request.post_data = stored[i].request.post_data
                        /\ rep.response = stored[i].response

-----------------------------------------------------------------------------
(* Two calls served at the same time *)

\* the one URL the page of each call requests: the calls load different pages
OwnUrl(c) == IF c = 1 THEN PageU ELSE AnjiU

\* the request events of call c: a request on_request records and one it
\* fails on
OwnRequests(c) ==
    { [url |-> OwnUrl(c), method |-> "GET", headers |-> UaHeaders, post_data |-> None,
       raises |-> ""],
      [url |-> OwnUrl(c), method |-> "GET", headers |-> <<>>, post_data |-> None,
       raises |-> "headers"] }

\* the handler runs in a worker thread per call: the steps of two calls
\* interleave in any order
TwoNext ==
    \E c \in CallIds :
        \/ Start(c, {<<"e", "%", "2", "F", "b">>}, {None})
        \/ OnRequestFrom(c, OwnRequests(c), MaxEvents)
        \/ Finish(c)

SpecTwo == Init /\ [][TwoNext]_vars

\* C16: the store of a call holds the events of that call and no others,
\* however the steps of two calls interleave: its keys are the URLs of its
\* own page, each list has one entry per request event of the call, its
\* ErrorLog one entry per failed listener of the call; a call starts with an
\* empty store; and its answer reports its own URLs, entries and errors.
C16_CallsIsolated ==
    \A c \in CallIds :
        LET failed == nEvents[c] - nRequests[c][OwnUrl(c)]
        IN  /\ Range(Keys(captured[c])) \subseteq {OwnUrl(c), ErrorsKey}
            /\ \A u \in URLS : Len(List(c, u)) = nRequests[c][u] + nUnmatched[c][u]
            /\ Len(Errors(c)) = failed
            /\ (pc[c] = "Navigating" /\ nEvents[c] = 0) => captured[c] = <<>>
            /\ pc[c] = "Done" =>
                  /\ Range(Body(c).all_captured_request_urls) \subseteq {OwnUrl(c)}
                  /\ Len(Body(c).matched_entries) = nRequests[c][OwnUrl(c)]
                  /\ \A i \in 1..Len(Body(c).matched_entries) :
                         Body(c).matched_entries[i].request.url = OwnUrl(c)
                  /\ Len(Body(c).errors) = failed

\* call 2 starts after call 1 has stored two entries and an error, and is
\* loading with one entry of its own and no error
C16_Witness ==
    /\ pc[1] = "Done"
    /\ Len(List(1, PageU)) = 2
    /\ Len(Errors(1)) = 1
    /\ pc[2] = "Navigating"
    /\ nEvents[2] = 1
    /\ Keys(captured[2]) = <<AnjiU>>
    /\ Len(List(2, AnjiU)) = 1

-----------------------------------------------------------------------------
(* A page that requests one URL again and again *)

\* the most listener invocations of such a call
MaxPolls == 4

\* requests for the page URL: two that on_request records, told apart by
\* their method, and one it fails on
PollRequests ==
    { [url |-> PageU, method |-> "GET", headers |-> UaHeaders, post_data |-> None,
       raises |-> ""],
      [url |-> PageU, method |-> "POST", headers |-> <<>>,
       post_data |-> Some(<<"k", "=", "1">>), raises |-> ""],
      [url |-> PageU, method |-> "GET", headers |-> <<>>, post_data |-> None,
       raises |-> "headers"] }

\* responses for the page URL: one on_response handles, one whose headers
\* raise at line 104, and one whose request raises at line 113 when an entry
\* has to be synthesized for it
PollResponses ==
    { [request |-> [url |-> PageU, method |-> "POST", headers |-> <<>>,
                    post_data |-> Some(<<"k", "=", "1">>), raises |-> ""],
       status |-> 200, headers |-> <<<<"content-type", "text/html">>>>,
       raises |-> ""],
      [request |-> [url |-> PageU, method |-> "GET", headers |-> <<>>,
                    post_data |-> None, raises |-> ""],
       status |-> 200, headers |-> <<>>, raises |-> "headers"],
      [request |-> [url |-> PageU, method |-> "GET", headers |-> <<>>,
                    post_data |-> None, raises |-> "headers"],
       status |-> 404, headers |-> <<>>, raises |-> ""] }

\* one call of the page URL with no target_request and up to MaxPolls events
\* on the one URL
PollNext ==
    \/ Start(1, {<<"e", "%", "2", "F", "b">>}, {None})
    \/ OnRequestFrom(1, PollRequests, MaxPolls)
    \/ OnResponseFrom(1, PollResponses, MaxPolls)
    \/ Finish(1)

SpecPolling == Init /\ [][PollNext]_vars

IsUrlKey(k) == k # ErrorsKey

\* the URL keys of the store of call c after a step
UrlKeysAfter(c) == SelectSeq(Keys(captured'[c]), IsUrlKey)

\* a step that leaves the captured traffic of call c as it is and appends
\* one ErrorLog entry of `phase`
OnlyLogsError(c, phase) ==
    /\ UrlKeysAfter(c) = UrlKeys(c)
    /\ \A i \in 1..Len(UrlKeys(c)) :
          ListAfter(c, UrlKeys(c)[i]) = List(c, UrlKeys(c)[i])
    /\ Len(ErrorsAfter(c)) = Len(Errors(c)) + 1
    /\ SubSeq(ErrorsAfter(c), 1, Len(Errors(c))) = Errors(c)
    /\ ErrorsAfter(c)[Len(ErrorsAfter(c))].phase = phase

\* C17: a listener that fails leaves the captured traffic untouched: the URL
\* keys and the list of every URL are after the failure what they were
\* before, and the one change of the store is the ErrorLog entry appended.
C17_FailureLeavesTraffic ==
    [][\A c \in CallIds :
          /\ \A request \in PollRequests :
                (RequestStep(c, request) /\ RequestRaises(request))
                => OnlyLogsError(c, "request")
          /\ \A response \in PollResponses :
                (ResponseStep(c, response) /\ ResponseFails(captured[c], response))
                => OnlyLogsError(c, "response")
      ]_vars

\* an answer after both listeners failed, once each, on a store that holds
\* an entry waiting for its response and one that has it
C17_Witness ==
    /\ pc[1] = "Done"
    /\ Len(Errors(1)) = 2
    /\ {Errors(1)[i].phase : i \in 1..2} = {"request", "response"}
    /\ Len(List(1, PageU)) = 2
    /\ List(1, PageU)[1].response # None
    /\ List(1, PageU)[2].response = None

\* the entry on_request stores for `request`
EntryOf(request) ==
    [request |-> [method |-> request.method, url |-> request.url,
                  headers |-> request.headers, post_data |-> pd_safe(request)],
     response |-> None]

\* C18: while the recorded requests and responses of a URL alternate (each
\* response arrives before the next request for the URL), no entry is
\* synthesized: the list has one entry per request, appended by the request
\* at the end of the list, every entry but a last one still waiting has its
\* response, and a response fills the entry of the request before it.
C18_NonOverlapping ==
    [][\A c \in CallIds :
          /\ \A u \in URLS :
                alternation'[c][u] # "broken"
                => /\ nUnmatched'[c][u] = 0
                   /\ Len(ListAfter(c, u)) = nRequests'[c][u]
                   /\ \A i \in 1..Len(ListAfter(c, u)) :
                         (ListAfter(c, u)[i].response = None)
                            <=> (i = Len(ListAfter(c, u)) /\ alternation'[c][u] = "waiting")
          /\ \A request \in PollRequests :
                (/\ RequestStep(c, request) /\ ~RequestRaises(request)
                 /\ alternation'[c][request.url] = "waiting")
                => ListAfter(c, request.url)
                      = Append(List(c, request.url), EntryOf(request))
          /\ \A response \in PollResponses :
                (/\ ResponseStep(c, response) /\ ~ResponseFails(captured[c], response)
                 /\ alternation'[c][response.request.url] = "idle")
                => LET u == response.request.url
                       n == Len(List(c, u))
                   IN  /\ List(c, u)[n].response = None
                       /\ ListAfter(c, u) =
                              [List(c, u) EXCEPT ![n].response =
                                  Some([status |-> response.status,
                                        headers |-> response.headers])]
      ]_vars

\* a GET and then a POST of the page URL, each answered before anything else
\* was requested: two entries in that order, both with their response
C18_Witness ==
    /\ alternation[1][PageU] = "idle"
    /\ nRequests[1][PageU] = 2
    /\ Len(List(1, PageU)) = 2
    /\ List(1, PageU)[1].request.method = "GET"
    /\ List(1, PageU)[2].request.method = "POST"
    /\ List(1, PageU)[1].response # None
    /\ List(1, PageU)[2].response # None

\* the answer call c gives in the step
BodyAfter(c) == out'[c][1].body

\* C19: only the last entry of a list can receive a response: an entry that
\* is waiting for its response when another entry follows it in the list
\* keeps its empty response through every later event, and the answer
\* reports it with a null response.
C19_StaleEntryStaysOpen ==
    [][\A c \in CallIds : \A u \in URLS :
          \A i \in 1..(Len(List(c, u)) - 1) :
              List(c, u)[i].response = None
              => /\ Len(ListAfter(c, u)) >= Len(List(c, u))
                 /\ ListAfter(c, u)[i] = List(c, u)[i]
                 /\ (pc'[c] = "Done" /\ BodyAfter(c).matched_request_url = Some(u))
                    => BodyAfter(c).matched_entries[i].response = None
      ]_vars

\* two requests, then two responses: the second request's entry took the
\* first response, a third entry was synthesized for the second, and the
\* answer reports the first request's entry with a null response
C19_Witness ==
    /\ pc[1] = "Done"
    /\ Len(List(1, PageU)) = 3
    /\ List(1, PageU)[1].response = None
    /\ List(1, PageU)[2].response # None
    /\ List(1, PageU)[3].response # None
    /\ Body(1).matched_request_url = Some(PageU)
    /\ Body(1).matched_entries[1].response = None

\* C20: total_requests_captured is the length of all_captured_request_urls,
\* which is the number of distinct captured URL keys, capped at 200; it is
\* not the number of entries, of which a URL may have several.
C20_TotalIsUrlCount ==
    \A c \in CallIds :
        pc[c] = "Done" =>
            /\ Body(c).total_requests_captured = Len(Body(c).all_captured_request_urls)
            /\ Body(c).total_requests_captured
                  = Min(Cardinality(Range(Keys(captured[c])) \ {ErrorsKey}), 200)

\* an answer after 201 distinct URLs, the page URL requested twice, and a
\* failed listener: 202 entries and an ErrorLog key, 200 reported
C20_Witness ==
    \E c \in CallIds :
        /\ pc[c] = "Done"
        /\ Len(UrlKeys(c)) = 201
        /\ HasKey(captured[c], ErrorsKey)
        /\ Len(List(c, PageU)) = 2
        /\ TotalEntries(captured[c]) = 202
        /\ Body(c).total_requests_captured = 200

====
